---------------------------- MODULE Spec2Model ----------------------------
(***************************************************************************)
(* A model of src/request.py: the error classifier get_error_message, the *)
(* transport cloudflare_gateway_request, the retry decorator with its      *)
(* default retry_config, and the RateLimiter.                              *)
(*                                                                         *)
(* Durations of the retry backoff are fixed-point numbers in units of      *)
(* 1/Scale second.  The exponent random.uniform(0, attempt_number - 1)     *)
(* draws is a multiple of 1/Res.  The rate limiter's clock counts ticks.   *)
(***************************************************************************)
EXTENDS Integers, Sequences, FiniteSets, TLC

VARIABLES
    \* ---- retry.wrapper (lines 115-131) ----
    cfg,            \* the keyword arguments retry() was given
    func,           \* the wrapped function: how its successive calls end
    rpc,            \* position of the wrapper
    attempt_number, \* local attempt_number
    outcome,        \* how the last call of func ended (the caught e, or a value)
    result,         \* what the wrapper returned
    raised,         \* the exception that left the wrapper
    wait_time,      \* local wait_time
    ncalls,         \* calls of func in this invocation of the wrapper
    nsleeps,        \* calls of time.sleep in this invocation of the wrapper
    trace,          \* the calls the wrapper made, in order, this invocation
    invocations,    \* invocations of the wrapper so far
    prev_retried,   \* the previous invocation made more than one attempt
    \* ---- wait_random_exponential as a function (lines 106-107) ----
    b_pc,           \* "drawn": arguments chosen; "applied": b_value computed
    b_n, b_multiplier, b_max_wait,  \* its arguments
    b_u,            \* the exponent random.uniform returned, in units of 1/Res
    b_value,        \* what it returned, in units of 1/Scale
    \* ---- get_error_message as a function (lines 18-51) ----
    m_pc,           \* "drawn": arguments chosen; "applied": m_message computed
    m_status, m_url,  \* its arguments
    m_message,      \* what it returned
    \* ---- cloudflare_gateway_request (lines 53-101) ----
    tpc,            \* position in the function
    conn,           \* the HTTPSConnection: "none", "open" or "closed"
    full_url,       \* local full_url
    response,       \* what the server answers: status, encoding and body
    pending,        \* the exception in flight or the value being returned
    t_result,       \* the (status, json) pair returned
    t_raised,       \* the exception that left the function
    cause,          \* the exception first raised inside the try block
    log,            \* the calls of info() and error() of this call, in order
    sent,           \* calls of conn.request by this call
    exchanges,      \* responses read by this call
    tcalls,         \* calls of the function by its own caller so far
    \* ---- RateLimiter (lines 149-160) ----
    clock,          \* what time.time() returns now
    interval,       \* self.interval
    timestamp,      \* self.timestamp
    lpc,            \* position in wait_for_next_request
    now,            \* local now
    sleep_time,     \* local sleep_time
    slept,          \* what time.sleep was called with in this call, -1 if not called
    stamps,         \* the values stamped into timestamp, in order
    \* ---- threads calling rate_limiter.wait_for_next_request (149-162) ----
    th_pc,          \* position of each thread in wait_for_next_request
    th_now,         \* each thread's local now
    th_read,        \* the value of self.timestamp each thread read at line 156
    th_sleep,       \* each thread's local sleep_time
    th_wake,        \* the clock reading from which each thread's sleep is over
    th_overlap,     \* whether another thread was in the method during the call
    th_calls,       \* the calls that returned, in the order of their stamps
    \* ---- rate_limited_request.wrapper (lines 164-169) ----
    wpc,            \* position of the wrapper
    wcalls,         \* calls of the wrapper so far
    w_trace,        \* the calls the wrapper made and how they ended, this call
    w_outcome,      \* what left the wrapper: a value or an exception
    w_args          \* the arguments of the call: endpoint and params

retryVars == <<cfg, func, rpc, attempt_number, outcome, result, raised,
               wait_time, ncalls, nsleeps, trace, invocations, prev_retried>>
backoffVars == <<b_pc, b_n, b_multiplier, b_max_wait, b_u, b_value>>
msgVars == <<m_pc, m_status, m_url, m_message>>
transportVars == <<tpc, conn, full_url, response, pending, t_result, t_raised,
                   cause, log, sent, exchanges, tcalls>>
limiterVars == <<clock, interval, timestamp, lpc, now, sleep_time, slept,
                 stamps>>
threadVars == <<th_pc, th_now, th_read, th_sleep, th_wake, th_overlap,
                th_calls>>
wrapVars == <<wpc, wcalls, w_trace, w_outcome, w_args>>
vars == <<retryVars, backoffVars, msgVars, transportVars, limiterVars,
          threadVars, wrapVars>>

\* what the actions of one component leave alone
notRetry ==
    <<backoffVars, msgVars, transportVars, limiterVars, threadVars, wrapVars>>
notBackoff ==
    <<retryVars, msgVars, transportVars, limiterVars, threadVars, wrapVars>>
notMsg ==
    <<retryVars, backoffVars, transportVars, limiterVars, threadVars, wrapVars>>
notTransport ==
    <<retryVars, backoffVars, msgVars, limiterVars, threadVars, wrapVars>>
notLimiter ==
    <<retryVars, backoffVars, msgVars, transportVars, threadVars, wrapVars>>
notThreads == <<retryVars, backoffVars, msgVars, transportVars, wrapVars>>

None == "None"

Min(a, b) == IF a <= b THEN a ELSE b
Max(a, b) == IF a >= b THEN a ELSE b

(***************************************************************************)
(* Bounds of the model.                                                    *)
(***************************************************************************)
Scale == 10          \* fixed-point unit of a duration: 1/Scale second
Res == 2             \* the exponent drawn is a multiple of 1/Res
MaxAttempts == 5     \* attempts of one invocation of the wrapper
MaxInvocations == 2  \* invocations of the wrapper
StopAfter == 2       \* the attempt at which the non-default stop gives up
MaxN == 8            \* attempt numbers wait_random_exponential is applied to
MaxInterval == 3     \* the rate limiter's interval, in ticks
MaxRequests == 3     \* calls of wait_for_next_request
MaxClock == 8        \* the clock stops ticking by itself there
MaxOversleep == 1    \* time.sleep(d) takes d to d + MaxOversleep ticks
MaxStatus == 620     \* get_error_message is applied to statuses up to there
NegStatus == 2       \* and down to -NegStatus
MaxTransportCalls == 2  \* calls of cloudflare_gateway_request
MaxThreadCalls == 2  \* calls of wait_for_next_request by the threads together
MaxPipelineAttempts == 3  \* attempts of one call of the pipeline

(***************************************************************************)
(* Exceptions are records of a type and a message.  HTTPException is the   *)
(* class of line 15; ValueError stands for any other exception class.      *)
(***************************************************************************)
Exc(t, m) == [type |-> t, msg |-> m]

HTTPException(m) == Exc("HTTPException", m)

\* a value a function returns, and the ways a call ends that raise nothing
Ret(v) == [type |-> "return", msg |-> v]

NoOutcome == [type |-> "None", msg |-> ""]

IsExc(o) == o.type \notin {"return", "None", "again"}

NoResponse == [status |-> 0, encoding |-> "", body |-> ""]

NoResult == [status |-> 0, json |-> ""]

\* a stop condition that gives up at the second attempt
stop_at_second_attempt(n) == n >= 2

\* line 103
stop_never(n) == FALSE

\* a stop condition other than the default: gives up from attempt StopAfter on
stop_after_attempt(n) == n >= StopAfter

(***************************************************************************)
(* 2 ** x for x = u / Res, in units of 1/Scale, rounded down in its        *)
(* fractional factor: 2 ** (u \div Res) times the Res-th root of           *)
(* 2 ** (u % Res).                                                         *)
(***************************************************************************)
Pow2Frac(f) ==
    CHOOSE r \in Scale..(2 * Scale) :
        /\ r ^ Res <= (Scale ^ Res) * (2 ^ f)
        /\ (r + 1) ^ Res > (Scale ^ Res) * (2 ^ f)

Pow2(u) == (2 ^ (u \div Res)) * Pow2Frac(u % Res)

\* random.uniform(0, attempt_number): the range one too wide
UniformUpToN(n) == 0..(Res * n)

\* what random.uniform(0, attempt_number - 1) can return, in units of 1/Res
Uniform(n) == 0..(Res * (n - 1))

\* line 107 without its min(..., max_wait)
wait_random_exponential_uncapped(n, multiplier, max_wait, u) ==
    multiplier * Pow2(u)

\* line 107, u the exponent drawn: a duration in units of 1/Scale
wait_random_exponential(n, multiplier, max_wait, u) ==
    Min(multiplier * Pow2(u), max_wait * Scale)

\* a predicate that retries whatever was raised
retry_if_any_exception(e) == TRUE

\* line 110, for exceptions = (HTTPException,)
retry_if_exception_type(e) == e.type = "HTTPException"

(***************************************************************************)
(* get_error_message, lines 18-51.                                         *)
(***************************************************************************)
\* lines 19-43 with the phrase of 413 as older references have it
error_messages_old_phrase ==
    (400 :> "400 Client Error: Bad Request") @@
    (401 :> "401 Client Error: Unauthorized") @@
    (403 :> "403 Client Error: Forbidden") @@
    (404 :> "404 Client Error: Not Found") @@
    (405 :> "405 Client Error: Method Not Allowed") @@
    (406 :> "406 Client Error: Not Acceptable") @@
    (408 :> "408 Client Error: Request Timeout") @@
    (409 :> "409 Client Error: Conflict") @@
    (410 :> "410 Client Error: Gone") @@
    (411 :> "411 Client Error: Length Required") @@
    (412 :> "412 Client Error: Precondition Failed") @@
    (413 :> "413 Client Error: Request Entity Too Large") @@
    (414 :> "414 Client Error: URI Too Long") @@
    (415 :> "415 Client Error: Unsupported Media Type") @@
    (416 :> "416 Client Error: Range Not Satisfiable") @@
    (417 :> "417 Client Error: Expectation Failed") @@
    (429 :> "429 Client Error: Too Many Requests") @@
    (500 :> "500 Server Error: Internal Server Error") @@
    (501 :> "501 Server Error: Not Implemented") @@
    (502 :> "502 Server Error: Bad Gateway") @@
    (503 :> "503 Server Error: Service Unavailable") @@
    (504 :> "504 Server Error: Gateway Timeout") @@
    (505 :> "505 Server Error: HTTP Version Not Supported")

\* lines 19-43
error_messages ==
    (400 :> "400 Client Error: Bad Request") @@
    (401 :> "401 Client Error: Unauthorized") @@
    (403 :> "403 Client Error: Forbidden") @@
    (404 :> "404 Client Error: Not Found") @@
    (405 :> "405 Client Error: Method Not Allowed") @@
    (406 :> "406 Client Error: Not Acceptable") @@
    (408 :> "408 Client Error: Request Timeout") @@
    (409 :> "409 Client Error: Conflict") @@
    (410 :> "410 Client Error: Gone") @@
    (411 :> "411 Client Error: Length Required") @@
    (412 :> "412 Client Error: Precondition Failed") @@
    (413 :> "413 Client Error: Payload Too Large") @@
    (414 :> "414 Client Error: URI Too Long") @@
    (415 :> "415 Client Error: Unsupported Media Type") @@
    (416 :> "416 Client Error: Range Not Satisfiable") @@
    (417 :> "417 Client Error: Expectation Failed") @@
    (429 :> "429 Client Error: Too Many Requests") @@
    (500 :> "500 Server Error: Internal Server Error") @@
    (501 :> "501 Server Error: Not Implemented") @@
    (502 :> "502 Server Error: Bad Gateway") @@
    (503 :> "503 Server Error: Service Unavailable") @@
    (504 :> "504 Server Error: Gateway Timeout") @@
    (505 :> "505 Server Error: HTTP Version Not Supported")

\* lines 44-51
get_error_message(status, url) ==
    IF status \in DOMAIN error_messages
      THEN error_messages[status] \o " for url: " \o url
    ELSE IF status >= 400 /\ status < 500
      THEN ToString(status) \o " Client Error for url: " \o url
    ELSE IF status >= 500
      THEN ToString(status) \o " Server Error for url: " \o url
    ELSE "HTTP request failed with status " \o ToString(status)
            \o " for url: " \o url

(***************************************************************************)
(* lines 135-147: the default configuration, and two others retry() can be *)
(* given: one whose stop condition gives up, one with every argument None. *)
(***************************************************************************)
retry_config ==
    [stop |-> "stop_never", wait |-> "wait_random_exponential",
     retry |-> "retry_if_exception_type", after |-> "info",
     before_sleep |-> "info"]

stopping_config == [retry_config EXCEPT !.stop = "stop_after_attempt"]

bare_config ==
    [stop |-> None, wait |-> None, retry |-> None, after |-> None,
     before_sleep |-> None]

Configs == {retry_config, stopping_config, bare_config}

(***************************************************************************)
(* The wrapped function: it raises exc on its first `fails` calls, then    *)
(* ends as `final` says: a value it returns, an exception it raises, or    *)
(* "again" when it goes on raising exc for ever.                           *)
(***************************************************************************)
Values == {"v1", "v2"}

Raisable == {HTTPException("503"), Exc("ValueError", "bad")}

Again == [type |-> "again", msg |-> ""]

Funcs ==
    [exc : Raisable, fails : 0..(MaxAttempts - 1),
     final : {Ret(v) : v \in Values} \cup {Exc("ValueError", "bug"), Again}]

\* before the first call
NoFunc == [exc |-> NoOutcome, fails |-> 0, final |-> NoOutcome]

\* how call number n of func ends
FuncOutcome(f, n) ==
    IF n <= f.fails \/ f.final = Again THEN f.exc ELSE f.final

(***************************************************************************)
(* retry.wrapper, lines 115-131, one action per statement.                 *)
(***************************************************************************)
StopFn(stop, n) ==
    CASE stop = "stop_never" -> stop_never(n)
      [] stop = "stop_after_attempt" -> stop_after_attempt(n)

\* line 116 with the counter kept outside wrapper(): a call goes on counting
RetryCallKeepsCounter(f) ==
    /\ rpc \in {"idle", "returned", "raised"}
    /\ invocations < MaxInvocations
    /\ invocations' = invocations + 1
    /\ prev_retried' = (attempt_number > 1)
    /\ func' = f
    /\ rpc' = "try"
    /\ outcome' = NoOutcome
    /\ result' = None
    /\ raised' = NoOutcome
    /\ wait_time' = -1
    /\ ncalls' = 0
    /\ nsleeps' = 0
    /\ trace' = <<>>
    /\ UNCHANGED <<cfg, attempt_number, notRetry>>

\* line 116: the caller invokes the wrapper
RetryCall(f) ==
    /\ rpc \in {"idle", "returned", "raised"}
    /\ invocations < MaxInvocations
    /\ invocations' = invocations + 1
    /\ prev_retried' = (attempt_number > 1)
    /\ func' = f
    /\ attempt_number' = 0
    /\ rpc' = "try"
    /\ outcome' = NoOutcome
    /\ result' = None
    /\ raised' = NoOutcome
    /\ wait_time' = -1
    /\ ncalls' = 0
    /\ nsleeps' = 0
    /\ trace' = <<>>
    /\ UNCHANGED <<cfg, notRetry>>

\* lines 119-120 with the return left out: the value is dropped, the loop goes on
RetryAttemptNoReturn ==
    /\ rpc = "try"
    /\ attempt_number < MaxAttempts
    /\ attempt_number' = attempt_number + 1
    /\ ncalls' = ncalls + 1
    /\ outcome' = FuncOutcome(func, ncalls + 1)
    /\ trace' = Append(trace, <<"func", attempt_number'>>)
    /\ rpc' = IF outcome'.type = "return" THEN "try" ELSE "except"
    /\ UNCHANGED <<cfg, func, result, raised, wait_time, nsleeps, invocations,
                   prev_retried,
                   notRetry>>

\* lines 119-120: attempt_number += 1; return func(*args, **kwargs)
RetryAttempt ==
    /\ rpc = "try"
    /\ attempt_number < MaxAttempts
    /\ attempt_number' = attempt_number + 1
    /\ ncalls' = ncalls + 1
    /\ outcome' = FuncOutcome(func, ncalls + 1)
    /\ trace' = Append(trace, <<"func", attempt_number'>>)
    /\ IF outcome'.type = "return"
          THEN rpc' = "returned" /\ result' = outcome'.msg
          ELSE rpc' = "except" /\ UNCHANGED result
    /\ UNCHANGED <<cfg, func, raised, wait_time, nsleeps, invocations,
                   prev_retried, notRetry>>

\* lines 121-123: except Exception as e: if retry and not retry(e): raise
RetryExcept ==
    /\ rpc = "except"
    /\ IF cfg.retry # None /\ ~retry_if_exception_type(outcome)
          THEN rpc' = "raised" /\ raised' = outcome
          ELSE rpc' = "after" /\ UNCHANGED raised
    /\ UNCHANGED <<cfg, func, attempt_number, outcome, result, wait_time,
                   ncalls, nsleeps, trace, invocations, prev_retried, notRetry>>

\* lines 124-125: if after: after({attempt_number, outcome})
RetryAfter ==
    /\ rpc = "after"
    /\ rpc' = "stop"
    /\ trace' = IF cfg.after # None
                  THEN Append(trace, <<"after", attempt_number, outcome>>)
                  ELSE trace
    /\ UNCHANGED <<cfg, func, attempt_number, outcome, result, raised,
                   wait_time, ncalls, nsleeps, invocations,
                   prev_retried, notRetry>>

\* lines 126-127: if stop and stop(attempt_number): raise
RetryStop ==
    /\ rpc = "stop"
    /\ trace' = IF cfg.stop # None
                  THEN Append(trace, <<"stop", attempt_number>>)
                  ELSE trace
    /\ IF cfg.stop # None /\ StopFn(cfg.stop, attempt_number)
          THEN rpc' = "raised" /\ raised' = outcome
          ELSE rpc' = "before_sleep" /\ UNCHANGED raised
    /\ UNCHANGED <<cfg, func, attempt_number, outcome, result, wait_time,
                   ncalls, nsleeps, invocations, prev_retried, notRetry>>

\* lines 128-131 with the sleep left out: the loop goes straight on
RetryBeforeSleepSkipsSleep ==
    /\ rpc = "before_sleep"
    /\ rpc' = "try"
    /\ trace' = IF cfg.before_sleep # None
                  THEN Append(trace, <<"before_sleep", attempt_number>>)
                  ELSE trace
    /\ UNCHANGED <<cfg, func, attempt_number, outcome, result, raised,
                   wait_time, ncalls, nsleeps, invocations, prev_retried,
                   notRetry>>

\* lines 128-129: if before_sleep: before_sleep({attempt_number})
RetryBeforeSleep ==
    /\ rpc = "before_sleep"
    /\ rpc' = "wait"
    /\ trace' = IF cfg.before_sleep # None
                  THEN Append(trace, <<"before_sleep", attempt_number>>)
                  ELSE trace
    /\ UNCHANGED <<cfg, func, attempt_number, outcome, result, raised,
                   wait_time, ncalls, nsleeps, invocations,
                   prev_retried, notRetry>>

\* line 130: wait_time = wait(attempt_number) if wait else 1
RetryWait ==
    /\ rpc = "wait"
    /\ rpc' = "sleep"
    /\ \E u \in Uniform(attempt_number) :
          wait_time' = IF cfg.wait # None
                         THEN wait_random_exponential(attempt_number, 1, 10, u)
                         ELSE 1 * Scale
    /\ UNCHANGED <<cfg, func, attempt_number, outcome, result, raised,
                   ncalls, nsleeps, trace, invocations, prev_retried, notRetry>>

\* line 131: time.sleep(wait_time), and back to the head of the loop
RetrySleep ==
    /\ rpc = "sleep"
    /\ rpc' = "try"
    /\ nsleeps' = nsleeps + 1
    /\ trace' = Append(trace, <<"sleep", attempt_number>>)
    /\ UNCHANGED <<cfg, func, attempt_number, outcome, result, raised,
                   wait_time, ncalls, invocations, prev_retried, notRetry>>

\* the steps the wrapper takes by itself once it is called
RetryStep ==
    \/ RetryAttempt
    \/ RetryExcept
    \/ RetryAfter
    \/ RetryStop
    \/ RetryBeforeSleep
    \/ RetryWait
    \/ RetrySleep

BackoffIdle ==
    /\ b_pc = "off"
    /\ b_n = 0
    /\ b_multiplier = 0
    /\ b_max_wait = 0
    /\ b_u = 0
    /\ b_value = 0

RetryInit ==
    /\ cfg \in Configs
    /\ func = NoFunc
    /\ rpc = "idle"
    /\ attempt_number = 0
    /\ outcome = NoOutcome
    /\ result = None
    /\ raised = NoOutcome
    /\ wait_time = -1
    /\ ncalls = 0
    /\ nsleeps = 0
    /\ trace = <<>>
    /\ invocations = 0
    /\ prev_retried = FALSE

MsgIdle ==
    /\ m_pc = "off"
    /\ m_status = 0
    /\ m_url = ""
    /\ m_message = ""

TransportIdle ==
    /\ tpc = "off"
    /\ conn = "none"
    /\ full_url = ""
    /\ response = NoResponse
    /\ pending = NoOutcome
    /\ t_result = NoResult
    /\ t_raised = NoOutcome
    /\ cause = NoOutcome
    /\ log = <<>>
    /\ sent = 0
    /\ exchanges = 0
    /\ tcalls = 0

LimiterIdle ==
    /\ clock = 0
    /\ interval = 0
    /\ timestamp = 0
    /\ lpc = "off"
    /\ now = 0
    /\ sleep_time = 0
    /\ slept = -1
    /\ stamps = <<>>

RetryIdle ==
    /\ cfg = retry_config
    /\ func = NoFunc
    /\ rpc = "off"
    /\ attempt_number = 0
    /\ outcome = NoOutcome
    /\ result = None
    /\ raised = NoOutcome
    /\ wait_time = -1
    /\ ncalls = 0
    /\ nsleeps = 0
    /\ trace = <<>>
    /\ invocations = 0
    /\ prev_retried = FALSE

\* the threads that share rate_limiter
Threads == {"t1", "t2"}

ThreadsIdle ==
    /\ th_pc = [t \in Threads |-> "off"]
    /\ th_now = [t \in Threads |-> 0]
    /\ th_read = [t \in Threads |-> 0]
    /\ th_sleep = [t \in Threads |-> 0]
    /\ th_wake = [t \in Threads |-> 0]
    /\ th_overlap = [t \in Threads |-> FALSE]
    /\ th_calls = <<>>

WrapIdle ==
    /\ wpc = "off"
    /\ wcalls = 0
    /\ w_trace = <<>>
    /\ w_outcome = NoOutcome
    /\ w_args = <<"", <<>>>>

InitRetry ==
    /\ RetryInit
    /\ BackoffIdle /\ MsgIdle /\ TransportIdle /\ LimiterIdle /\ ThreadsIdle
    /\ WrapIdle

NextRetry ==
    \/ \E f \in Funcs : RetryCall(f)
    \/ RetryAttempt
    \/ RetryExcept
    \/ RetryAfter
    \/ RetryStop
    \/ RetryBeforeSleep
    \/ RetryWait
    \/ RetrySleep

SpecRetry == InitRetry /\ [][NextRetry]_vars

\* a called wrapper goes on running: the thread is not stopped, sleep returns
FairSpecRetry == SpecRetry /\ WF_vars(RetryStep)

(***************************************************************************)
(* wait_random_exponential applied to arguments drawn from small sets.     *)
(***************************************************************************)
Multipliers == {0, 1, 2, 12}

MaxWaits == {10, 5}

BackoffInit ==
    /\ b_pc = "drawn"
    /\ b_n \in 1..MaxN
    /\ b_multiplier \in Multipliers
    /\ b_max_wait \in MaxWaits
    /\ b_u = 0
    /\ b_value = 0

\* line 107: random.uniform draws the exponent, the function returns
BackoffApply ==
    /\ b_pc = "drawn"
    /\ b_pc' = "applied"
    /\ \E u \in Uniform(b_n) :
          /\ b_u' = u
          /\ b_value' = wait_random_exponential(b_n, b_multiplier, b_max_wait, u)
    /\ UNCHANGED <<b_n, b_multiplier, b_max_wait, notBackoff>>

InitBackoff ==
    /\ BackoffInit
    /\ RetryIdle /\ MsgIdle /\ TransportIdle /\ LimiterIdle /\ ThreadsIdle
    /\ WrapIdle

NextBackoff == BackoffApply

SpecBackoff == InitBackoff /\ [][NextBackoff]_vars

(***************************************************************************)
(* RateLimiter, lines 149-160, called by one thread.  The clock never goes *)
(* back: it ticks between any two steps, and time.sleep(d) advances it by  *)
(* at least d.                                                             *)
(***************************************************************************)
\* lines 150-152 with the timestamp set to a time long past, not to the clock
LimiterInitLongAgo ==
    /\ clock = 0
    /\ interval \in 0..MaxInterval
    /\ timestamp = 0 - MaxInterval
    /\ lpc = "idle"
    /\ now = 0
    /\ sleep_time = 0
    /\ slept = -1
    /\ stamps = <<>>

\* lines 150-152: RateLimiter(interval), constructed at time 0
LimiterInit ==
    /\ clock = 0
    /\ interval \in 0..MaxInterval
    /\ timestamp = 0
    /\ lpc = "idle"
    /\ now = 0
    /\ sleep_time = 0
    /\ slept = -1
    /\ stamps = <<>>

\* time passes
Tick ==
    /\ clock < MaxClock
    /\ clock' = clock + 1
    /\ UNCHANGED <<interval, timestamp, lpc, now, sleep_time, slept, stamps,
                   notLimiter>>

\* lines 155-157 with elapsed left out: the whole interval is slept every time
LimiterEnterFullInterval ==
    /\ lpc = "idle"
    /\ Len(stamps) < MaxRequests
    /\ lpc' = "check"
    /\ now' = clock
    /\ sleep_time' = Max(0, interval)
    /\ slept' = -1
    /\ UNCHANGED <<clock, interval, timestamp, stamps, notLimiter>>

\* lines 155-157: now, elapsed and sleep_time
LimiterEnter ==
    /\ lpc = "idle"
    /\ Len(stamps) < MaxRequests
    /\ lpc' = "check"
    /\ now' = clock
    /\ LET elapsed == clock - timestamp
       IN  sleep_time' = Max(0, interval - elapsed)
    /\ slept' = -1
    /\ UNCHANGED <<clock, interval, timestamp, stamps, notLimiter>>

\* lines 158-159: if sleep_time > 0: time.sleep(sleep_time)
LimiterSleep ==
    /\ lpc = "check"
    /\ lpc' = "stamp"
    /\ IF sleep_time > 0
          THEN /\ slept' = sleep_time
               /\ \E d \in sleep_time..(sleep_time + MaxOversleep) :
                     clock' = clock + d
          ELSE UNCHANGED <<clock, slept>>
    /\ UNCHANGED <<interval, timestamp, now, sleep_time, stamps, notLimiter>>

\* line 160 stamping the reading taken on entry instead of a new one
LimiterStampEntryTime ==
    /\ lpc = "stamp"
    /\ lpc' = "idle"
    /\ timestamp' = now
    /\ stamps' = Append(stamps, now)
    /\ UNCHANGED <<clock, interval, now, sleep_time, slept, notLimiter>>

\* line 160: self.timestamp = time.time(), and the call returns
LimiterStamp ==
    /\ lpc = "stamp"
    /\ lpc' = "idle"
    /\ timestamp' = clock
    /\ stamps' = Append(stamps, clock)
    /\ UNCHANGED <<clock, interval, now, sleep_time, slept, notLimiter>>

InitLimiter ==
    /\ LimiterInit
    /\ RetryIdle /\ BackoffIdle /\ MsgIdle /\ TransportIdle /\ ThreadsIdle
    /\ WrapIdle

NextLimiter ==
    \/ Tick
    \/ LimiterEnter
    \/ LimiterSleep
    \/ LimiterStamp

SpecLimiter == InitLimiter /\ [][NextLimiter]_vars

(***************************************************************************)
(* RateLimiter, lines 149-162, called by the threads of Threads at once on *)
(* the one rate_limiter of line 162, with no lock.  A thread can be        *)
(* preempted between any two lines; a sleeping thread goes on once the     *)
(* clock has advanced by what it asked for.                                *)
(***************************************************************************)
ThreadsInit ==
    /\ th_pc = [t \in Threads |-> "idle"]
    /\ th_now = [t \in Threads |-> 0]
    /\ th_read = [t \in Threads |-> 0]
    /\ th_sleep = [t \in Threads |-> 0]
    /\ th_wake = [t \in Threads |-> 0]
    /\ th_overlap = [t \in Threads |-> FALSE]
    /\ th_calls = <<>>

\* the threads inside wait_for_next_request
Inside == {t \in Threads : th_pc[t] # "idle"}

\* line 155: now = time.time()
ThreadEnter(t) ==
    /\ th_pc[t] = "idle"
    /\ Len(stamps) + Cardinality(Inside) < MaxThreadCalls
    /\ th_pc' = [th_pc EXCEPT ![t] = "elapsed"]
    /\ th_now' = [th_now EXCEPT ![t] = clock]
    /\ th_overlap' = [o \in Threads |->
                        IF o = t THEN Inside # {}
                        ELSE IF o \in Inside THEN TRUE
                        ELSE th_overlap[o]]
    /\ UNCHANGED <<th_read, th_sleep, th_wake, th_calls, limiterVars,
                   notThreads>>

\* lines 156-157: elapsed = now - self.timestamp; sleep_time = max(0, ...)
ThreadElapsed(t) ==
    /\ th_pc[t] = "elapsed"
    /\ th_pc' = [th_pc EXCEPT ![t] = "check"]
    /\ th_read' = [th_read EXCEPT ![t] = timestamp]
    /\ LET elapsed == th_now[t] - timestamp
       IN  th_sleep' = [th_sleep EXCEPT ![t] = Max(0, interval - elapsed)]
    /\ UNCHANGED <<th_now, th_wake, th_overlap, th_calls, limiterVars,
                   notThreads>>

\* lines 158-159: if sleep_time > 0: time.sleep(sleep_time) is called
ThreadSleep(t) ==
    /\ th_pc[t] = "check"
    /\ IF th_sleep[t] > 0
          THEN /\ th_pc' = [th_pc EXCEPT ![t] = "sleeping"]
               /\ th_wake' = [th_wake EXCEPT ![t] = clock + th_sleep[t]]
          ELSE /\ th_pc' = [th_pc EXCEPT ![t] = "stamp"]
               /\ UNCHANGED th_wake
    /\ UNCHANGED <<th_now, th_read, th_sleep, th_overlap, th_calls,
                   limiterVars, notThreads>>

\* line 159: time.sleep returns, not before the time asked for has passed
ThreadWake(t) ==
    /\ th_pc[t] = "sleeping"
    /\ clock >= th_wake[t]
    /\ th_pc' = [th_pc EXCEPT ![t] = "stamp"]
    /\ UNCHANGED <<th_now, th_read, th_sleep, th_wake, th_overlap, th_calls,
                   limiterVars, notThreads>>

\* line 160 stamping the reading taken on entry instead of a new one
ThreadStampEntryTime(t) ==
    /\ th_pc[t] = "stamp"
    /\ th_pc' = [th_pc EXCEPT ![t] = "idle"]
    /\ timestamp' = th_now[t]
    /\ stamps' = Append(stamps, th_now[t])
    /\ th_calls' = Append(th_calls, [thread |-> t, read |-> th_read[t],
                                     stamp |-> th_now[t],
                                     overlap |-> th_overlap[t]])
    /\ th_now' = [th_now EXCEPT ![t] = 0]
    /\ th_read' = [th_read EXCEPT ![t] = 0]
    /\ th_sleep' = [th_sleep EXCEPT ![t] = 0]
    /\ th_wake' = [th_wake EXCEPT ![t] = 0]
    /\ th_overlap' = [th_overlap EXCEPT ![t] = FALSE]
    /\ UNCHANGED <<clock, interval, lpc, now, sleep_time, slept, notThreads>>

\* line 160: self.timestamp = time.time(), and the call returns: its locals
\* are gone
ThreadStamp(t) ==
    /\ th_pc[t] = "stamp"
    /\ th_pc' = [th_pc EXCEPT ![t] = "idle"]
    /\ timestamp' = clock
    /\ stamps' = Append(stamps, clock)
    /\ th_calls' = Append(th_calls, [thread |-> t, read |-> th_read[t],
                                     stamp |-> clock,
                                     overlap |-> th_overlap[t]])
    /\ th_now' = [th_now EXCEPT ![t] = 0]
    /\ th_read' = [th_read EXCEPT ![t] = 0]
    /\ th_sleep' = [th_sleep EXCEPT ![t] = 0]
    /\ th_wake' = [th_wake EXCEPT ![t] = 0]
    /\ th_overlap' = [th_overlap EXCEPT ![t] = FALSE]
    /\ UNCHANGED <<clock, interval, lpc, now, sleep_time, slept, notThreads>>

InitThreads ==
    /\ LimiterInit /\ ThreadsInit
    /\ RetryIdle /\ BackoffIdle /\ MsgIdle /\ TransportIdle /\ WrapIdle

NextThreads ==
    \/ Tick
    \/ \E t \in Threads : ThreadEnter(t)
    \/ \E t \in Threads : ThreadElapsed(t)
    \/ \E t \in Threads : ThreadSleep(t)
    \/ \E t \in Threads : ThreadWake(t)
    \/ \E t \in Threads : ThreadStamp(t)

SpecThreads == InitThreads /\ [][NextThreads]_vars

(***************************************************************************)
(* cloudflare_gateway_request, lines 53-101.                               *)
(*                                                                         *)
(* info() and error() are imported from the package (line 13); they are    *)
(* logging calls that return: each appends its severity and message to log.*)
(***************************************************************************)
info(l, m) == Append(l, <<"info", m>>)

error(l, m) == Append(l, <<"error", m>>)

\* line 13: the account identifier of the configuration
CF_IDENTIFIER == "acct"

Endpoints == {"/rules", "/lists"}

\* params: None or empty (both falsy), or a mapping, as its items in order
ParamSets == {<<>>, << <<"page", "1">> >>, << <<"page", "2">>, <<"type", "DOMAIN">> >>}

\* urllib.parse.urlencode on keys and values that need no escaping
RECURSIVE urlencode(_)
urlencode(params) ==
    IF Len(params) = 0 THEN ""
    ELSE LET kv == params[1][1] \o "=" \o params[1][2]
         IN  IF Len(params) = 1 THEN kv
             ELSE kv \o "&" \o urlencode(Tail(params))

\* lines 63-65
RequestPath(endpoint, params) ==
    LET url == "/client/v4/accounts/" \o CF_IDENTIFIER \o "/gateway" \o endpoint
    IN  IF Len(params) > 0 THEN url \o "?" \o urlencode(params) ELSE url

\* line 66
FullUrl(endpoint, params) ==
    "https://api.cloudflare.com" \o RequestPath(endpoint, params)

\* line 15 with the class of http.client taken for the local one
LocalBasesFromHttpClient == {"http.client.HTTPException", "Exception"}

\* line 15: class HTTPException(Exception)
LocalHTTPExceptionBases == {"Exception"}

\* the classes an exception is an instance of, besides its own
Ancestors(t) ==
    CASE t = "HTTPException" -> LocalHTTPExceptionBases
      [] t = "http.client.RemoteDisconnected" ->
            {"http.client.BadStatusLine", "http.client.HTTPException",
             "ConnectionResetError", "ConnectionError", "OSError", "Exception"}
      [] t = "http.client.IncompleteRead" ->
            {"http.client.HTTPException", "Exception"}
      [] t = "ssl.SSLError" -> {"OSError", "Exception"}
      [] t = "socket.timeout" -> {"OSError", "Exception"}
      [] t = "ConnectionRefusedError" -> {"ConnectionError", "OSError", "Exception"}
      [] t = "gzip.BadGzipFile" -> {"OSError", "Exception"}
      [] t = "json.JSONDecodeError" -> {"ValueError", "Exception"}
      [] t = "UnicodeDecodeError" -> {"UnicodeError", "ValueError", "Exception"}
      [] OTHER -> {"Exception"}

IsInstance(e, classes) == (Ancestors(e.type) \cup {e.type}) \cap classes # {}

\* line 94 without OSError in the tuple
NetworkErrorsWithoutOSError ==
    {"http.client.HTTPException", "ssl.SSLError", "socket.timeout"}

\* line 94: the classes of the first handler
NetworkErrors ==
    {"http.client.HTTPException", "ssl.SSLError", "socket.timeout", "OSError"}

\* what conn.request can raise
RequestFailures ==
    {Exc("ConnectionRefusedError", "[Errno 111] Connection refused"),
     Exc("ssl.SSLError", "certificate verify failed"),
     Exc("socket.timeout", "timed out"),
     Exc("ValueError", "method can't contain control characters")}

\* what conn.getresponse and response.read can raise
ResponseFailures ==
    {Exc("http.client.RemoteDisconnected",
         "Remote end closed connection without response"),
     Exc("http.client.IncompleteRead", "IncompleteRead(10 bytes read)"),
     Exc("socket.timeout", "The read operation timed out")}

\* the texts a body holds once decompressed
ValidJson == {"{\"ok\":true}", "[]"}

Texts == ValidJson \cup {"<html>", "\\xff\\xfe"}

\* bytes.decode('utf-8')
IsUtf8(t) == t # "\\xff\\xfe"

\* json.loads on a valid document
json_loads(t) == IF t = "[]" THEN "list()" ELSE "dict(ok=True)"

Statuses == {200, 201, 204, 301, 400, 404, 418, 500, 503, 599}

Encodings == {"gzip", "deflate", "None"}

Responses ==
    [status : Statuses, encoding : Encodings,
     body : [wrap : {"none", "gzip", "gzip_truncated", "deflate"}, text : Texts]]

\* lines 84-92: decompress, decode and parse; how that ends
Decode(r) ==
    LET data ==
          IF r.encoding = "gzip" THEN
              IF r.body.wrap = "gzip" THEN Ret(r.body.text)
              ELSE IF r.body.wrap = "gzip_truncated"
                THEN Exc("EOFError",
                         "Compressed file ended before the end-of-stream marker was reached")
              ELSE Exc("gzip.BadGzipFile", "Not a gzipped file")
          ELSE IF r.encoding = "deflate" THEN
              IF r.body.wrap = "deflate" THEN Ret(r.body.text)
              ELSE Exc("zlib.error", "Error -3 while decompressing data")
          ELSE IF r.body.wrap = "none" THEN Ret(r.body.text)
          ELSE Ret("\\xff\\xfe")
    IN  IF data.type # "return" THEN data
        ELSE IF ~IsUtf8(data.msg)
          THEN Exc("UnicodeDecodeError", "'utf-8' codec can't decode byte")
        ELSE IF data.msg \notin ValidJson
          THEN Exc("json.JSONDecodeError", "Expecting value")
        ELSE Ret(json_loads(data.msg))

\* lines 53-66: the connection is created, the url built
TCall(endpoint, params) ==
    /\ tpc \in {"idle", "returned", "raised"}
    /\ tcalls < MaxTransportCalls
    /\ tcalls' = tcalls + 1
    /\ tpc' = "request"
    /\ conn' = "open"
    /\ full_url' = FullUrl(endpoint, params)
    /\ response' = NoResponse
    /\ pending' = NoOutcome
    /\ cause' = NoOutcome
    /\ t_result' = NoResult
    /\ t_raised' = NoOutcome
    /\ log' = <<>>
    /\ sent' = 0
    /\ exchanges' = 0
    /\ UNCHANGED notTransport

\* line 69: conn.request(method, url, body, headers)
TRequest ==
    /\ tpc = "request"
    /\ sent' = sent + 1
    /\ \/ tpc' = "getresponse" /\ UNCHANGED <<pending, cause>>
       \/ \E e \in RequestFailures :
            tpc' = "except" /\ pending' = e /\ cause' = e
    /\ UNCHANGED <<conn, full_url, response, t_result, t_raised, log,
                   exchanges, tcalls, notTransport>>

\* lines 70-72: the response is received and read
TGetResponse ==
    /\ tpc = "getresponse"
    /\ \/ \E r \in Responses :
            /\ response' = r
            /\ exchanges' = exchanges + 1
            /\ tpc' = "status"
            /\ UNCHANGED <<pending, cause>>
       \/ \E e \in ResponseFailures :
            /\ tpc' = "except"
            /\ pending' = e
            /\ cause' = e
            /\ UNCHANGED <<response, exchanges>>
    /\ UNCHANGED <<conn, full_url, t_result, t_raised, log, sent, tcalls,
                   notTransport>>

\* lines 74-82 with every 2xx status taken for a success
TStatusAccepts2xx ==
    /\ tpc = "status"
    /\ IF response.status = 400 THEN
          LET error_message == get_error_message(response.status, full_url)
          IN  /\ log' = error(log, error_message)
              /\ pending' = HTTPException(error_message)
              /\ cause' = pending'
              /\ tpc' = "except"
       ELSE IF response.status < 200 \/ response.status > 299 THEN
          LET error_message == get_error_message(response.status, full_url)
          IN  /\ log' = info(log, error_message)
              /\ pending' = HTTPException(error_message)
              /\ cause' = pending'
              /\ tpc' = "except"
       ELSE /\ tpc' = "decode"
            /\ UNCHANGED <<pending, cause, log>>
    /\ UNCHANGED <<conn, full_url, response, t_result, t_raised, sent,
                   exchanges, tcalls, notTransport>>

\* lines 74-82 without the branch of lines 74-77
TStatusLogsAllAsInfo ==
    /\ tpc = "status"
    /\ IF response.status # 200 THEN
          LET error_message == get_error_message(response.status, full_url)
          IN  /\ log' = info(log, error_message)
              /\ pending' = HTTPException(error_message)
              /\ cause' = pending'
              /\ tpc' = "except"
       ELSE /\ tpc' = "decode"
            /\ UNCHANGED <<pending, cause, log>>
    /\ UNCHANGED <<conn, full_url, response, t_result, t_raised, sent,
                   exchanges, tcalls, notTransport>>

\* lines 74-82: a status other than 200 is logged and raised
TStatus ==
    /\ tpc = "status"
    /\ IF response.status = 400 THEN
          LET error_message == get_error_message(response.status, full_url)
          IN  /\ log' = error(log, error_message)
              /\ pending' = HTTPException(error_message)
              /\ cause' = pending'
              /\ tpc' = "except"
       ELSE IF response.status # 200 THEN
          LET error_message == get_error_message(response.status, full_url)
          IN  /\ log' = info(log, error_message)
              /\ pending' = HTTPException(error_message)
              /\ cause' = pending'
              /\ tpc' = "except"
       ELSE /\ tpc' = "decode"
            /\ UNCHANGED <<pending, cause, log>>
    /\ UNCHANGED <<conn, full_url, response, t_result, t_raised, sent,
                   exchanges, tcalls, notTransport>>

\* lines 84-92: the body is decompressed, decoded and parsed
TDecode ==
    /\ tpc = "decode"
    /\ pending' = Decode(response)
    /\ IF pending'.type = "return"
          THEN tpc' = "finally" /\ UNCHANGED cause
          ELSE tpc' = "except" /\ cause' = pending'
    /\ UNCHANGED <<conn, full_url, response, t_result, t_raised, log, sent,
                   exchanges, tcalls, notTransport>>

\* lines 94-99: the handlers; an exception neither matches goes on as it is
TExcept ==
    /\ tpc = "except"
    /\ tpc' = "finally"
    /\ IF IsInstance(pending, NetworkErrors) THEN
          LET m == "Network error occurred: " \o pending.msg
          IN  log' = info(log, m) /\ pending' = HTTPException(m)
       ELSE IF IsInstance(pending, {"json.JSONDecodeError"}) THEN
          /\ log' = info(log, "Failed to decode JSON response")
          /\ pending' = HTTPException("Failed to decode JSON response")
       ELSE UNCHANGED <<log, pending>>
    /\ UNCHANGED <<conn, full_url, response, t_result, t_raised, cause, sent,
                   exchanges, tcalls, notTransport>>

\* lines 100-101 with the close after the return instead of in a finally
TFinallyOnlyOnSuccess ==
    /\ tpc = "finally"
    /\ tpc' = "exit"
    /\ conn' = IF pending.type = "return" THEN "closed" ELSE conn
    /\ UNCHANGED <<full_url, response, pending, t_result, t_raised, cause, log,
                   sent, exchanges, tcalls, notTransport>>

\* lines 100-101: finally: conn.close()
TFinally ==
    /\ tpc = "finally"
    /\ tpc' = "exit"
    /\ conn' = "closed"
    /\ UNCHANGED <<full_url, response, pending, t_result, t_raised, cause, log,
                   sent, exchanges, tcalls, notTransport>>

\* control goes back to the caller, with the pair of line 92 or the exception
TExit ==
    /\ tpc = "exit"
    /\ IF pending.type = "return"
          THEN /\ tpc' = "returned"
               /\ t_result' = [status |-> response.status, json |-> pending.msg]
               /\ UNCHANGED t_raised
          ELSE /\ tpc' = "raised"
               /\ t_raised' = pending
               /\ UNCHANGED t_result
    /\ UNCHANGED <<conn, full_url, response, pending, cause, log, sent,
                   exchanges, tcalls, notTransport>>

TransportInit ==
    /\ tpc = "idle"
    /\ conn = "none"
    /\ full_url = ""
    /\ response = NoResponse
    /\ pending = NoOutcome
    /\ t_result = NoResult
    /\ t_raised = NoOutcome
    /\ cause = NoOutcome
    /\ log = <<>>
    /\ sent = 0
    /\ exchanges = 0
    /\ tcalls = 0

InitTransport ==
    /\ TransportInit
    /\ RetryIdle /\ BackoffIdle /\ MsgIdle /\ LimiterIdle /\ ThreadsIdle
    /\ WrapIdle

NextTransport ==
    \/ \E endpoint \in Endpoints : \E params \in ParamSets : TCall(endpoint, params)
    \/ TRequest
    \/ TGetResponse
    \/ TStatus
    \/ TDecode
    \/ TExcept
    \/ TFinally
    \/ TExit

SpecTransport == InitTransport /\ [][NextTransport]_vars

(***************************************************************************)
(* get_error_message applied to arguments drawn from small sets.           *)
(***************************************************************************)
Urls ==
    {"https://api.cloudflare.com/client/v4/accounts/acct/gateway/rules",
     "https://api.cloudflare.com/client/v4/accounts/acct/gateway/lists?page=1"}

MsgInit ==
    /\ m_pc = "drawn"
    /\ m_status \in (0 - NegStatus)..MaxStatus
    /\ m_url \in Urls
    /\ m_message = ""

\* lines 44-51: the function returns
MsgApply ==
    /\ m_pc = "drawn"
    /\ m_pc' = "applied"
    /\ m_message' = get_error_message(m_status, m_url)
    /\ UNCHANGED <<m_status, m_url, notMsg>>

InitMsg ==
    /\ MsgInit
    /\ RetryIdle /\ BackoffIdle /\ TransportIdle /\ LimiterIdle /\ ThreadsIdle
    /\ WrapIdle

NextMsg == MsgApply

SpecMsg == InitMsg /\ [][NextMsg]_vars

(***************************************************************************)
(* The pipeline: rate_limited_request (lines 164-169) around the retry     *)
(* wrapper with retry_config (lines 112-147) around                        *)
(* cloudflare_gateway_request.  A call of one function by another is one   *)
(* step of both; the steps inside a function are the actions above.        *)
(***************************************************************************)
\* the function the retry wrapper is given in the pipeline
TransportFunc ==
    [exc |-> NoOutcome, fails |-> 0,
     final |-> Exc("function", "cloudflare_gateway_request")]

WrapInit ==
    /\ wpc = "idle"
    /\ wcalls = 0
    /\ w_trace = <<>>
    /\ w_outcome = NoOutcome
    /\ w_args = <<"", <<>>>>

\* lines 166 and 168 with line 167 left out: func is called straight away
PCallSkipsLimiter(endpoint, params) ==
    /\ wpc \in {"idle", "returned", "raised"}
    /\ wcalls < MaxInvocations
    /\ lpc = "idle"
    /\ wcalls' = wcalls + 1
    /\ w_args' = <<endpoint, params>>
    /\ w_outcome' = NoOutcome
    /\ wpc' = "call_func"
    /\ w_trace' = <<>>
    /\ UNCHANGED <<limiterVars, retryVars, backoffVars, msgVars,
                   transportVars, threadVars>>

\* lines 166-167: the wrapper is called and calls
\* rate_limiter.wait_for_next_request(), which runs its lines 155-157
PCall(endpoint, params) ==
    /\ wpc \in {"idle", "returned", "raised"}
    /\ wcalls < MaxInvocations
    /\ lpc = "idle"
    /\ wcalls' = wcalls + 1
    /\ w_args' = <<endpoint, params>>
    /\ w_outcome' = NoOutcome
    /\ wpc' = "limit"
    /\ w_trace' = <<"wait_call">>
    /\ lpc' = "check"
    /\ now' = clock
    /\ LET elapsed == clock - timestamp
       IN  sleep_time' = Max(0, interval - elapsed)
    /\ slept' = -1
    /\ UNCHANGED <<clock, interval, timestamp, stamps, retryVars, backoffVars,
                   msgVars, transportVars, threadVars>>

\* line 160, and wait_for_next_request returns to line 168: its locals are
\* gone
PWaitReturn ==
    /\ wpc = "limit"
    /\ lpc = "stamp"
    /\ lpc' = "idle"
    /\ timestamp' = clock
    /\ stamps' = Append(stamps, clock)
    /\ now' = 0
    /\ sleep_time' = 0
    /\ slept' = -1
    /\ wpc' = "call_func"
    /\ w_trace' = Append(w_trace, "wait_return")
    /\ UNCHANGED <<clock, interval, wcalls, w_outcome, w_args, retryVars,
                   backoffVars, msgVars, transportVars, threadVars>>

\* line 168: func(*args, **kwargs), func being the retry wrapper (line 116)
PFuncCall ==
    /\ wpc = "call_func"
    /\ wpc' = "func"
    /\ w_trace' = Append(w_trace, "func_call")
    /\ invocations' = invocations + 1
    /\ func' = TransportFunc
    /\ attempt_number' = 0
    /\ rpc' = "try"
    /\ outcome' = NoOutcome
    /\ result' = None
    /\ raised' = NoOutcome
    /\ wait_time' = -1
    /\ ncalls' = 0
    /\ nsleeps' = 0
    /\ trace' = <<>>
    /\ UNCHANGED <<cfg, prev_retried, wcalls, w_outcome, w_args, limiterVars,
                   backoffVars, msgVars, transportVars, threadVars>>

\* lines 119-120 of the retry wrapper with func passing through the limiter
\* at every attempt
PAttemptThroughLimiter ==
    /\ wpc = "func"
    /\ rpc = "try"
    /\ attempt_number < MaxPipelineAttempts
    /\ attempt_number' = attempt_number + 1
    /\ ncalls' = ncalls + 1
    /\ trace' = Append(trace, <<"func", attempt_number'>>)
    /\ rpc' = "call"
    /\ timestamp' = clock
    /\ stamps' = Append(stamps, clock)
    /\ tpc' = "request"
    /\ conn' = "open"
    /\ full_url' = FullUrl(w_args[1], w_args[2])
    /\ response' = NoResponse
    /\ pending' = NoOutcome
    /\ cause' = NoOutcome
    /\ t_result' = NoResult
    /\ t_raised' = NoOutcome
    /\ log' = <<>>
    /\ sent' = 0
    /\ exchanges' = 0
    /\ outcome' = NoOutcome
    /\ UNCHANGED <<cfg, func, result, raised, wait_time, nsleeps,
                   invocations, prev_retried, tcalls, clock, interval, lpc,
                   now, sleep_time, slept, wrapVars, backoffVars, msgVars,
                   threadVars>>

\* lines 119-120 of the retry wrapper: attempt_number += 1 and func is
\* called, func being cloudflare_gateway_request (its lines 53-66); the e of
\* line 121 is unbound since the except block was left
PAttempt ==
    /\ wpc = "func"
    /\ rpc = "try"
    /\ attempt_number < MaxPipelineAttempts
    /\ attempt_number' = attempt_number + 1
    /\ ncalls' = ncalls + 1
    /\ trace' = Append(trace, <<"func", attempt_number'>>)
    /\ rpc' = "call"
    /\ tpc' = "request"
    /\ conn' = "open"
    /\ full_url' = FullUrl(w_args[1], w_args[2])
    /\ response' = NoResponse
    /\ pending' = NoOutcome
    /\ cause' = NoOutcome
    /\ t_result' = NoResult
    /\ t_raised' = NoOutcome
    /\ log' = <<>>
    /\ sent' = 0
    /\ exchanges' = 0
    /\ outcome' = NoOutcome
    /\ UNCHANGED <<cfg, func, result, raised, wait_time, nsleeps,
                   invocations, prev_retried, tcalls, limiterVars, wrapVars,
                   backoffVars, msgVars, threadVars>>

\* the (status, json) pair of line 92 as the retry wrapper holds it
Pair(status, json) == "(" \o ToString(status) \o ", " \o json \o ")"

\* cloudflare_gateway_request returns or raises into line 120 or 121 of the
\* retry wrapper
PAttemptEnd ==
    /\ rpc = "call"
    /\ tpc = "exit"
    /\ IF pending.type = "return"
          THEN /\ tpc' = "returned"
               /\ t_result' = [status |-> response.status, json |-> pending.msg]
               /\ outcome' = Ret(Pair(response.status, pending.msg))
               /\ rpc' = "returned"
               /\ result' = outcome'.msg
               /\ UNCHANGED t_raised
          ELSE /\ tpc' = "raised"
               /\ t_raised' = pending
               /\ outcome' = pending
               /\ rpc' = "except"
               /\ UNCHANGED <<t_result, result>>
    /\ UNCHANGED <<cfg, func, attempt_number, raised, wait_time, ncalls,
                   nsleeps, trace, invocations, prev_retried, conn, full_url,
                   response, pending, cause, log, sent, exchanges, tcalls,
                   limiterVars, wrapVars, backoffVars, msgVars, threadVars>>

\* line 168: what func returned is returned, what it raised goes on; the
\* locals of the retry wrapper and of the transport are gone
PReturn ==
    /\ wpc = "func"
    /\ rpc \in {"returned", "raised"}
    /\ wpc' = rpc
    /\ w_outcome' = IF rpc = "returned" THEN Ret(result) ELSE raised
    /\ w_trace' = Append(w_trace, IF rpc = "returned" THEN "func_return"
                                                      ELSE "func_raise")
    /\ rpc' = "idle"
    /\ func' = NoFunc
    /\ attempt_number' = 0
    /\ outcome' = NoOutcome
    /\ result' = None
    /\ raised' = NoOutcome
    /\ wait_time' = -1
    /\ ncalls' = 0
    /\ nsleeps' = 0
    /\ trace' = <<>>
    /\ tpc' = "idle"
    /\ conn' = "none"
    /\ full_url' = ""
    /\ response' = NoResponse
    /\ pending' = NoOutcome
    /\ t_result' = NoResult
    /\ t_raised' = NoOutcome
    /\ cause' = NoOutcome
    /\ log' = <<>>
    /\ sent' = 0
    /\ exchanges' = 0
    /\ prev_retried' = (attempt_number > 1)
    /\ UNCHANGED <<cfg, invocations, tcalls, wcalls, w_args, limiterVars,
                   backoffVars, msgVars, threadVars>>

\* what the server answers in the pipeline: a success, a body announced as
\* deflate that is not, and a status the policy retries
PipelineResponses ==
    {r \in Responses :
        /\ r.body.wrap = "none"
        /\ \/ r.status = 200 /\ r.body.text = "{\"ok\":true}"
                             /\ r.encoding \in {"None", "deflate"}
           \/ r.status = 503 /\ r.body.text = "<html>" /\ r.encoding = "None"}

\* time passes between two calls of the pipeline, and until interval has
\* elapsed since the last stamp: no step of the retry wrapper or of the
\* transport reads the clock, so a tick during a call can as well be taken
\* once the call is over, and the limiter treats every elapsed time from
\* interval up alike; inside wait_for_next_request the time that passes is
\* the time its sleep takes
PTick ==
    /\ wpc \in {"idle", "returned", "raised"}
    /\ clock < timestamp + interval
    /\ Tick

\* the failures of the network in the pipeline
PipelineFailures == {Exc("socket.timeout", "timed out")}

\* line 69, the network failing as PipelineFailures says
PRequest == TRequest /\ pending' \in PipelineFailures \cup {NoOutcome}

\* lines 70-72, the server answering as PipelineResponses says
PGetResponse ==
    /\ TGetResponse
    /\ response' \in PipelineResponses \cup {NoResponse}
    /\ pending' \in PipelineFailures \cup {NoOutcome}

\* line 130, random.uniform returning one end of its range
PWait ==
    /\ RetryWait
    /\ wait_time' \in {wait_random_exponential(attempt_number, 1, 10, u) :
                          u \in {0, Res * (attempt_number - 1)}}

InitPipeline ==
    /\ WrapInit
    /\ LimiterInit
    /\ RetryInit /\ cfg = retry_config
    /\ TransportInit
    /\ BackoffIdle /\ MsgIdle /\ ThreadsIdle

NextPipeline ==
    \/ PTick
    \/ \E endpoint \in Endpoints : PCall(endpoint, <<>>)
    \/ LimiterSleep
    \/ PWaitReturn
    \/ PFuncCall
    \/ PAttempt
    \/ PRequest
    \/ PGetResponse
    \/ TStatus
    \/ TDecode
    \/ TExcept
    \/ TFinally
    \/ PAttemptEnd
    \/ RetryExcept
    \/ RetryAfter
    \/ RetryStop
    \/ RetryBeforeSleep
    \/ PWait
    \/ RetrySleep
    \/ PReturn

SpecPipeline == InitPipeline /\ [][NextPipeline]_vars

(***************************************************************************)
(* The claims.                                                             *)
(***************************************************************************)
\* a function that raises HTTPException at every call
AlwaysHTTP(f) == f.final = Again /\ f.exc.type = "HTTPException"

\* a function that raises HTTPException k times and then returns v
FlakyThen(k, v) ==
    [exc |-> HTTPException("503"), fails |-> k, final |-> Ret(v)]

Started == rpc = "try" /\ attempt_number = 0

IsFuncOrSleep(e) == e[1] \in {"func", "sleep"}

\* attempts and sleeps alternate in the trace: func 1, sleep 1, func 2, ...
SleepBetweenAttempts ==
    LET fs == SelectSeq(trace, IsFuncOrSleep)
    IN  \A i \in 1..Len(fs) :
            fs[i] = <<IF i % 2 = 1 THEN "func" ELSE "sleep", (i + 1) \div 2>>

\* C1: under the default configuration no HTTPException leaves the wrapper,
\* and the wrapper never returns or raises
\* while the function raises HTTPException at every call; every attempt
\* number (up to the bound) is eventually reached, with one sleep before each
\* attempt after the first; and after any HTTPException at attempt n the
\* wrapper sleeps and makes attempt n + 1.
C1_RetriesForever ==
    /\ [](cfg = retry_config /\ rpc = "raised"
            => raised.type # "HTTPException")
    /\ [](cfg = retry_config /\ AlwaysHTTP(func)
            => rpc \notin {"returned", "raised"})
    /\ \A n \in 1..MaxAttempts :
          (cfg = retry_config /\ Started /\ AlwaysHTTP(func))
             ~> (attempt_number = n /\ ncalls = n /\ nsleeps = n - 1)
    /\ \A n \in 1..(MaxAttempts - 1) :
          (cfg = retry_config /\ rpc = "except" /\ attempt_number = n
             /\ outcome.type = "HTTPException")
             ~> (attempt_number = n + 1 /\ nsleeps = n)

C1_Witness ==
    /\ cfg = retry_config
    /\ AlwaysHTTP(func)
    /\ rpc = "except"
    /\ attempt_number = MaxAttempts
    /\ nsleeps = MaxAttempts - 1

\* C2: once the wrapper has handled an exception of the function that the
\* retry predicate rejects, it has re-raised that same exception, the call of
\* the function is the last call it made (no after hook, stop condition,
\* before_sleep hook or sleep follows it), and a function whose first call
\* raises such an exception was invoked exactly once.
C2_NonRetryablePropagates ==
    (cfg.retry # None /\ IsExc(outcome) /\ outcome.type # "HTTPException"
       /\ rpc # "except")
    => /\ rpc = "raised"
       /\ raised = outcome
       /\ trace[Len(trace)] = <<"func", attempt_number>>
       /\ ncalls = attempt_number
       /\ nsleeps = attempt_number - 1
       /\ (func.exc.type # "HTTPException" \/ func.fails = 0)
            => ncalls = 1 /\ trace = << <<"func", 1>> >>

C2_Witness ==
    /\ cfg = retry_config
    /\ rpc = "raised"
    /\ raised = Exc("ValueError", "bad")
    /\ ncalls = 1
    /\ trace = << <<"func", 1>> >>

\* C3: under the default configuration, a function that raises HTTPException
\* on its first k calls and returns v on call k + 1 makes the wrapper return:
\* it returns v after k + 1 calls and k sleeps, one between two attempts.
C3_ReturnsAfterFailures ==
    \A k \in 0..(MaxAttempts - 1) : \A v \in Values :
        /\ (cfg = retry_config /\ Started /\ func = FlakyThen(k, v))
              ~> (rpc = "returned" /\ func = FlakyThen(k, v))
        /\ [](cfg = retry_config /\ func = FlakyThen(k, v)
                /\ rpc \in {"returned", "raised"}
                => /\ rpc = "returned"
                   /\ result = v
                   /\ ncalls = k + 1
                   /\ nsleeps = k
                   /\ SleepBetweenAttempts)

C3_Witness ==
    /\ cfg = retry_config
    /\ func = FlakyThen(MaxAttempts - 1, "v2")
    /\ rpc = "returned"
    /\ result = "v2"
    /\ ncalls = MaxAttempts
    /\ nsleeps = MaxAttempts - 1

\* C10: with multiplier 1 and max_wait 10, wait_random_exponential returns a
\* value between 0 and 10 seconds for every attempt number n >= 1 and every
\* exponent drawn from [0, n - 1].
C10_BackoffInRange ==
    (b_pc = "applied" /\ b_multiplier = 1 /\ b_max_wait = 10)
    => /\ b_u \in Uniform(b_n)
       /\ b_value >= 0
       /\ b_value <= 10 * Scale

\* the cap is what bounds the value: 2 ** u alone exceeds max_wait
C10_Witness ==
    /\ b_pc = "applied"
    /\ b_multiplier = 1
    /\ b_max_wait = 10
    /\ Pow2(b_u) > 10 * Scale
    /\ b_value = 10 * Scale

\* C4: with one thread calling wait_for_next_request, any two consecutive
\* values stamped into timestamp differ by at least interval, and timestamp
\* holds the last of them.
C4_SpacingAtLeastInterval ==
    /\ \A i \in 1..(Len(stamps) - 1) : stamps[i + 1] - stamps[i] >= interval
    /\ Len(stamps) > 0 => timestamp = stamps[Len(stamps)]

\* two calls a tick apart on entry, the second one slept, the gap is tight
C4_Witness ==
    /\ Len(stamps) = 2
    /\ lpc = "idle"
    /\ interval = MaxInterval
    /\ sleep_time = interval - 1
    /\ stamps[2] - stamps[1] = interval

\* a response was received by the call of cloudflare_gateway_request
GotResponse == exchanges > 0

\* control is back at the caller of cloudflare_gateway_request
TDone == tpc \in {"returned", "raised"}

\* C5: cloudflare_gateway_request returns only for status 200, and then with
\* status 200; for every other status it raises HTTPException and returns
\* nothing, having sent one request and read one response.
C5_OnlyStatus200Returns ==
    /\ tpc = "returned"
         => /\ response.status = 200
            /\ t_result.status = 200
            /\ t_raised = NoOutcome
    /\ (TDone /\ GotResponse /\ response.status # 200)
         => /\ tpc = "raised"
            /\ t_raised.type = "HTTPException"
            /\ t_result = NoResult
            /\ sent = 1
            /\ exchanges = 1

\* a 2xx status other than 200 is raised
C5_Witness ==
    /\ tpc = "raised"
    /\ response.status = 204
    /\ t_raised.type = "HTTPException"
    /\ exchanges = 1

\* C6: for every status other than 200 the exception that leaves
\* cloudflare_gateway_request is the HTTPException raised at line 77 or 82,
\* with the message get_error_message(status, full_url), not one re-wrapped
\* by the handlers of lines 94-99.
C6_StatusMessageNotRewrapped ==
    (tpc = "raised" /\ GotResponse /\ response.status # 200)
    => /\ t_raised = HTTPException(get_error_message(response.status, full_url))
       /\ t_raised = cause
       /\ response.status = 404
            => t_raised.msg = "404 Client Error: Not Found for url: " \o full_url

C6_Witness ==
    /\ tpc = "raised"
    /\ response.status = 404
    /\ full_url =
         "https://api.cloudflare.com/client/v4/accounts/acct/gateway/rules?page=1"
    /\ t_raised.msg = "404 Client Error: Not Found for url: "
         \o "https://api.cloudflare.com/client/v4/accounts/acct/gateway/rules?page=1"

\* C7: whenever control is back at the caller of cloudflare_gateway_request,
\* by a return or by any exception, the connection of that call is closed.
C7_ConnectionClosedOnExit ==
    /\ TDone => conn = "closed"
    /\ conn = "open" => tpc \in {"request", "getresponse", "status", "decode",
                                  "except", "finally"}

\* an exception no handler catches leaves with the connection closed
C7_Witness ==
    /\ tpc = "raised"
    /\ cause.type = "zlib.error"
    /\ t_raised = cause
    /\ conn = "closed"

\* the network failures of lines 69-71
IsNetworkFailure(e) ==
    e.type \in {"ConnectionRefusedError", "ssl.SSLError", "socket.timeout",
                "http.client.RemoteDisconnected", "http.client.IncompleteRead"}

\* C9: when cloudflare_gateway_request has raised, a status 400 was logged
\* by one call of error() and none of info(); any other status than 200, a
\* network failure and a JSON decode failure by one call of info() and none
\* of error(); and in each of these cases the exception is an HTTPException.
C9_LogSeverity ==
    tpc = "raised"
    => /\ (GotResponse /\ response.status = 400)
            => /\ log = << <<"error", get_error_message(400, full_url)>> >>
               /\ t_raised.type = "HTTPException"
       /\ (GotResponse /\ response.status \notin {200, 400})
            => /\ log = << <<"info",
                             get_error_message(response.status, full_url)>> >>
               /\ t_raised.type = "HTTPException"
       /\ IsNetworkFailure(cause)
            => /\ log = << <<"info", "Network error occurred: " \o cause.msg>> >>
               /\ t_raised.type = "HTTPException"
       /\ cause.type = "json.JSONDecodeError"
            => /\ log = << <<"info", "Failed to decode JSON response">> >>
               /\ t_raised.type = "HTTPException"

C9_Witness ==
    /\ tpc = "raised"
    /\ response.status = 400
    /\ t_raised.type = "HTTPException"
    /\ Len(log) = 1
    /\ log[1][1] = "error"

(***************************************************************************)
(* The reference of C8: the reason phrases of the 23 table codes, and the  *)
(* message built from the number, the class and the phrase.                *)
(***************************************************************************)
Phrase ==
    (400 :> "Bad Request") @@ (401 :> "Unauthorized") @@ (403 :> "Forbidden") @@
    (404 :> "Not Found") @@ (405 :> "Method Not Allowed") @@
    (406 :> "Not Acceptable") @@ (408 :> "Request Timeout") @@
    (409 :> "Conflict") @@ (410 :> "Gone") @@ (411 :> "Length Required") @@
    (412 :> "Precondition Failed") @@ (413 :> "Payload Too Large") @@
    (414 :> "URI Too Long") @@ (415 :> "Unsupported Media Type") @@
    (416 :> "Range Not Satisfiable") @@ (417 :> "Expectation Failed") @@
    (429 :> "Too Many Requests") @@ (500 :> "Internal Server Error") @@
    (501 :> "Not Implemented") @@ (502 :> "Bad Gateway") @@
    (503 :> "Service Unavailable") @@ (504 :> "Gateway Timeout") @@
    (505 :> "HTTP Version Not Supported")

ErrorClass(status) == IF status < 500 THEN "Client" ELSE "Server"

TableMessage(status, url) ==
    ToString(status) \o " " \o ErrorClass(status) \o " Error: "
        \o Phrase[status] \o " for url: " \o url

GenericMessage(status, url) ==
    ToString(status) \o " " \o ErrorClass(status) \o " Error for url: " \o url

FallbackMessage(status, url) ==
    "HTTP request failed with status " \o ToString(status)
        \o " for url: " \o url

\* the reference as the claim words it: Server Error only for [500, 600)
ReferenceAsClaimed(status, url) ==
    IF status \in DOMAIN Phrase THEN TableMessage(status, url)
    ELSE IF status >= 400 /\ status < 600 THEN GenericMessage(status, url)
    ELSE FallbackMessage(status, url)

\* the reference with Server Error for every status from 500 up
ReferenceAmended(status, url) ==
    IF status \in DOMAIN Phrase THEN TableMessage(status, url)
    ELSE IF status >= 400 THEN GenericMessage(status, url)
    ELSE FallbackMessage(status, url)

\* C8 as claimed: get_error_message equals the reference in which a status
\* outside the table and outside [400, 600) gets the fallback message.
C8_AsClaimed ==
    m_pc = "applied" => m_message = ReferenceAsClaimed(m_status, m_url)

\* C8, amended: get_error_message equals the reference in which the 23 table
\* codes get "<N> <Client|Server> Error: <phrase> for url: <url>", the other
\* codes in [400, 500) "<N> Client Error for url: <url>", every other code
\* from 500 up (600 and above included) "<N> Server Error for url: <url>",
\* and every value below 400 the fallback message with the numeric status.
C8_MessageMatchesReference ==
    m_pc = "applied"
    => /\ m_message = ReferenceAmended(m_status, m_url)
       /\ Cardinality(DOMAIN error_messages) = 23

\* a status of 600 or more is answered with the Server Error message
C8_Witness ==
    /\ m_pc = "applied"
    /\ m_status = 600
    /\ m_message = "600 Server Error for url: " \o m_url

(***************************************************************************)
(* C11.  The order of the steps after a failure the predicate accepts.     *)
(***************************************************************************)
HasHooks == cfg.after # None /\ cfg.stop # None /\ cfg.before_sleep # None

\* what stop(n) answers under the configuration in use
StopAnswers(n) == cfg.stop = "stop_after_attempt" /\ n >= StopAfter

\* the values wait(n) can return under the configuration in use
WaitValues(n) ==
    IF cfg.wait = None
       THEN {1 * Scale}
       ELSE {Min(Pow2(u), 10 * Scale) : u \in 0..(Res * (n - 1))}

LastEvent == trace[Len(trace)]

\* every call the wrapper made comes right after the call the loop puts
\* before it
EventsInOrder ==
    \A i \in 1..Len(trace) :
        LET e == trace[i]
            n == e[2]
        IN  /\ e[1] = "func" /\ n = 1 => i = 1
            /\ e[1] = "func" /\ n > 1 => i > 1 /\ trace[i - 1] = <<"sleep", n - 1>>
            /\ HasHooks /\ e[1] = "after" =>
                  /\ i > 1 /\ trace[i - 1] = <<"func", n>>
                  /\ e[3] = FuncOutcome(func, n)
                  /\ e[3].type = "HTTPException"
            /\ HasHooks /\ e[1] = "stop" =>
                  /\ i > 1 /\ trace[i - 1] = <<"after", n, FuncOutcome(func, n)>>
                  /\ StopAnswers(n) => i = Len(trace)
            /\ HasHooks /\ e[1] = "before_sleep" =>
                  /\ i > 1 /\ trace[i - 1] = <<"stop", n>>
                  /\ ~StopAnswers(n)
            /\ HasHooks /\ e[1] = "sleep" =>
                  i > 1 /\ trace[i - 1] = <<"before_sleep", n>>

\* where the wrapper stands, given the last call it made
PositionFollowsEvents ==
    HasHooks /\ trace # <<>> =>
        /\ rpc = "after" => LastEvent = <<"func", attempt_number>>
        /\ rpc = "stop" => LastEvent = <<"after", attempt_number, outcome>>
        /\ rpc = "before_sleep" =>
              LastEvent = <<"stop", attempt_number>> /\ ~StopAnswers(attempt_number)
        /\ rpc \in {"wait", "sleep"} =>
              LastEvent = <<"before_sleep", attempt_number>>
        /\ rpc = "sleep" => wait_time \in WaitValues(attempt_number)
        /\ rpc = "try" => LastEvent = <<"sleep", attempt_number>>
        /\ rpc = "raised" /\ raised.type = "HTTPException" =>
              /\ LastEvent = <<"stop", attempt_number>>
              /\ StopAnswers(attempt_number)
              /\ raised = outcome

\* C11: after a failure at attempt n that the predicate accepts, the wrapper
\* calls after(n, failure), then stop(n); when stop(n) is true it re-raises
\* the failure with no before_sleep and no sleep; otherwise it calls
\* before_sleep(n), then sleeps wait(n), then starts attempt n + 1; no
\* attempt after the first starts without a sleep right before it.
C11_StepsInOrder == EventsInOrder /\ PositionFollowsEvents

\* the stopping policy re-raised at its last attempt, having gone through
\* after, stop, before_sleep and sleep at each attempt before it
C11_Witness ==
    /\ cfg = stopping_config
    /\ rpc = "raised"
    /\ attempt_number = StopAfter
    /\ Len(trace) = 5 * (StopAfter - 1) + 3
    /\ LastEvent = <<"stop", StopAfter>>
    /\ trace[5] = <<"sleep", 1>>

(***************************************************************************)
(* C12.  The attempt counter.                                              *)
(***************************************************************************)
\* calls of func among the first i calls the wrapper made
FuncEventsUpTo(i) == Cardinality({j \in 1..i : trace[j][1] = "func"})

\* C12: the counter is 0 when an invocation of the wrapper starts and is
\* incremented before each attempt: during the k-th call of func it is k,
\* the hooks, stop and wait after the k-th failure are given k, and a later
\* invocation of the wrapper counts from 1 again whatever the earlier ones
\* did.
C12_AttemptCounter ==
    /\ attempt_number = ncalls
    /\ attempt_number = FuncEventsUpTo(Len(trace))
    /\ rpc \in {"try", "except", "after", "stop", "before_sleep", "wait",
                "sleep"} /\ trace = <<>> => attempt_number = 0
    /\ trace # <<>> => trace[1] = <<"func", 1>>
    /\ \A i \in 1..Len(trace) : trace[i][2] = FuncEventsUpTo(i)
    /\ rpc = "sleep" => wait_time \in WaitValues(ncalls)

\* a second invocation, its first attempt just failed, after a first
\* invocation that made more than one attempt
C12_Witness ==
    /\ invocations = 2
    /\ prev_retried
    /\ rpc = "after"
    /\ attempt_number = 1
    /\ trace = <<<<"func", 1>>>>

(***************************************************************************)
(* C13.  One call of wait_for_next_request.                                *)
(***************************************************************************)
\* elapsed as line 156 computes it; timestamp keeps its value on entry until
\* line 160
ElapsedOnEntry == now - timestamp

\* at line 160, time.sleep has been called as the elapsed time requires
SleptAsRequired ==
    lpc = "stamp" =>
        /\ ElapsedOnEntry < interval =>
              /\ slept = interval - ElapsedOnEntry
              /\ clock >= now + slept
        /\ ElapsedOnEntry >= interval => slept = -1

\* line 160 stores a reading of the clock taken after the sleep, if any
StampsAfterSleep ==
    lpc = "stamp" /\ lpc' = "idle" =>
        /\ timestamp' = clock'
        /\ timestamp' >= now + Max(0, slept)

\* C13: with elapsed = now - timestamp on entry, wait_for_next_request
\* sleeps for exactly interval - elapsed when elapsed < interval and does not
\* sleep when elapsed >= interval; in both cases it then sets timestamp to a
\* reading of the clock taken after the sleep, and it never changes interval.
C13_WaitForNextRequest ==
    /\ []SleptAsRequired
    /\ [][StampsAfterSleep /\ interval' = interval]_vars

\* both cases in one run: a first call that slept the whole interval, then
\* a call entered later than interval after it that did not sleep
C13_Witness ==
    /\ Len(stamps) = 1
    /\ stamps[1] >= interval
    /\ interval = MaxInterval
    /\ lpc = "stamp"
    /\ ElapsedOnEntry > interval
    /\ slept = -1

\* the sleeping case with part of the interval already elapsed
C13_WitnessSleeps ==
    /\ lpc = "stamp"
    /\ ElapsedOnEntry > 0
    /\ ElapsedOnEntry < interval
    /\ slept = interval - ElapsedOnEntry

(***************************************************************************)
(* C20.  The first request after construction.                             *)
(***************************************************************************)
\* C20: timestamp starts as the time of construction (clock 0), so the first
\* call is spaced from the construction like any call from the one before
\* it: a first call entered less than interval after the construction sleeps
\* for the rest of the interval, and no call returns earlier than interval
\* after the construction.
C20_FirstRequestWaits ==
    /\ stamps = <<>> /\ lpc # "off" => timestamp = 0
    /\ stamps = <<>> /\ lpc = "stamp" /\ now < interval =>
          slept = interval - now
    /\ \A i \in 1..Len(stamps) : stamps[i] >= interval

\* the first call, entered one tick after the construction, slept the
\* remaining interval - 1 ticks and returned exactly interval after it
C20_Witness ==
    /\ Len(stamps) = 1
    /\ lpc = "idle"
    /\ interval = MaxInterval
    /\ now = 1
    /\ slept = interval - 1
    /\ stamps[1] = interval

(***************************************************************************)
(* C18.  The least backoff.                                                *)
(***************************************************************************)
\* min(multiplier, max_wait), in units of 1/Scale
LeastWait == Min(b_multiplier, b_max_wait) * Scale

\* C18: at attempt 1 the exponent is drawn from [0, 0], so
\* wait_random_exponential(1, multiplier, max_wait) is exactly
\* min(multiplier, max_wait), 1 with the defaults; for every n >= 1 the value
\* is at least min(multiplier, max_wait), so with the defaults it is never
\* zero and never below the multiplier.  Multipliers are durations: zero or
\* more.
C18_LeastWait ==
    b_pc = "applied" =>
        /\ b_n = 1 => b_u = 0 /\ b_value = LeastWait
        /\ b_value >= LeastWait
        /\ b_multiplier = 1 /\ b_max_wait = 10 =>
              b_value >= 1 * Scale /\ b_value > 0

\* the defaults at attempt 1: exactly one second
C18_Witness ==
    /\ b_pc = "applied"
    /\ b_n = 1
    /\ b_multiplier = 1
    /\ b_max_wait = 10
    /\ b_value = 1 * Scale

\* a multiplier above max_wait at attempt 1: exactly max_wait
C18_WitnessCapped ==
    /\ b_pc = "applied"
    /\ b_n = 1
    /\ b_multiplier > b_max_wait
    /\ b_value = b_max_wait * Scale

(***************************************************************************)
(* C17.  Network failures and JSON decode failures.                        *)
(***************************************************************************)
\* the classes the claim names
LowLevelClasses ==
    {"http.client.HTTPException", "ssl.SSLError", "socket.timeout", "OSError"}

\* C17: an exception of class http.client.HTTPException, ssl.SSLError,
\* socket.timeout or OSError raised while the request is sent or the
\* response read leaves cloudflare_gateway_request as an HTTPException with
\* the message "Network error occurred: <e>"; a JSON decode failure of a 200
\* body leaves it as an HTTPException with the message "Failed to decode
\* JSON response"; the predicate of the default policy accepts both.
C17_FailuresRewrapped ==
    tpc = "raised" =>
        /\ IsInstance(cause, LowLevelClasses) =>
              /\ t_raised = HTTPException("Network error occurred: " \o cause.msg)
              /\ retry_if_exception_type(t_raised)
        /\ cause.type = "json.JSONDecodeError" =>
              /\ response.status = 200
              /\ t_raised = HTTPException("Failed to decode JSON response")
              /\ retry_if_exception_type(t_raised)

\* a connection refused while the request was sent
C17_Witness ==
    /\ tpc = "raised"
    /\ sent = 1
    /\ exchanges = 0
    /\ cause.type = "ConnectionRefusedError"
    /\ t_raised = HTTPException("Network error occurred: [Errno 111] Connection refused")

\* a 200 response whose body is not a JSON document
C17_WitnessJson ==
    /\ tpc = "raised"
    /\ response.status = 200
    /\ cause.type = "json.JSONDecodeError"
    /\ t_raised = HTTPException("Failed to decode JSON response")

(***************************************************************************)
(* C19.  Failures after a response was received.                           *)
(***************************************************************************)
\* C19: every exception that leaves cloudflare_gateway_request after a
\* response was received is an HTTPException, which the predicate of the
\* default policy accepts; so a 200 body that fails gzip decompression,
\* deflate decompression or UTF-8 decoding is reported as HTTPException.
C19_ResponseFailuresAreHTTPException ==
    tpc = "raised" /\ GotResponse =>
        /\ t_raised.type = "HTTPException"
        /\ retry_if_exception_type(t_raised)

(***************************************************************************)
(* C16.  Two threads on the shared rate_limiter.                           *)
(***************************************************************************)
\* C16: the spacing of the limiter holds for serialized calls only: a call
\* during which no other thread was in wait_for_next_request returns at
\* least interval after the call before it, and every call returns at least
\* interval after the timestamp it read; two threads that are in the method
\* at once (there is no lock) can both return less than interval apart,
\* which is the state of C16_Witness.
C16_SpacingNeedsSerializedAccess ==
    /\ \A i \in 1..Len(th_calls) :
          /\ th_calls[i].stamp = stamps[i]
          /\ th_calls[i].stamp >= th_calls[i].read + interval
    /\ \A i \in 2..Len(th_calls) :
          ~th_calls[i].overlap => stamps[i] - stamps[i - 1] >= interval

\* both threads read the same timestamp, slept side by side and returned at
\* the same reading of the clock: less than interval apart
C16_Witness ==
    /\ Len(th_calls) = 2
    /\ th_calls[1].thread # th_calls[2].thread
    /\ th_calls[2].overlap
    /\ interval > 0
    /\ stamps[2] - stamps[1] < interval

(***************************************************************************)
(* C14.  rate_limited_request: the limiter first, then the function.       *)
(***************************************************************************)
\* the limiter has stamped once for every call of the wrapper so far, the
\* last time in this call
StampedThisCall == Len(stamps) = wcalls /\ timestamp = stamps[wcalls]

\* C14: in every call, the wrapper of rate_limited_request calls
\* rate_limiter.wait_for_next_request once, the timestamp is updated and the
\* method has returned before the wrapped function is called, and this is so
\* too for a call in which the wrapped function raises.
C14_LimiterBeforeFunc ==
    /\ wpc = "limit" =>
          /\ w_trace = <<"wait_call">>
          /\ Len(stamps) = wcalls - 1
          /\ rpc = "idle"
    /\ wpc = "call_func" =>
          /\ w_trace = <<"wait_call", "wait_return">>
          /\ StampedThisCall
          /\ lpc = "idle"
          /\ rpc = "idle"
    /\ wpc = "func" =>
          /\ w_trace = <<"wait_call", "wait_return", "func_call">>
          /\ StampedThisCall
          /\ invocations = wcalls
    /\ wpc = "returned" =>
          /\ w_trace = <<"wait_call", "wait_return", "func_call", "func_return">>
          /\ StampedThisCall
          /\ w_outcome.type = "return"
    /\ wpc = "raised" =>
          /\ w_trace = <<"wait_call", "wait_return", "func_call", "func_raise">>
          /\ StampedThisCall
          /\ IsExc(w_outcome)

\* a second call in which the wrapped function raised, after one
\* consultation of the limiter in each call
C14_Witness ==
    /\ wcalls = 2
    /\ wpc = "raised"
    /\ IsExc(w_outcome)
    /\ Len(stamps) = 2
    /\ w_trace = <<"wait_call", "wait_return", "func_call", "func_raise">>

(***************************************************************************)
(* C15.  The pipeline: one consultation of the limiter, many attempts.     *)
(***************************************************************************)
\* whatever the number of attempts, the limiter was consulted once in this
\* call, and each attempt after the first follows the hooks and the sleep
\* of the one before it
OncePerCall ==
    /\ Len(stamps) <= wcalls
    /\ wpc \in {"func", "returned", "raised"} => StampedThisCall /\ lpc = "idle"
    /\ wpc = "func" =>
          \A i \in 1..Len(trace) :
              trace[i][1] = "func" /\ trace[i][2] > 1 =>
                 /\ i > 5
                 /\ trace[i - 5] = <<"func", trace[i][2] - 1>>
                 /\ trace[i - 4][1] = "after"
                 /\ trace[i - 3][1] = "stop"
                 /\ trace[i - 2][1] = "before_sleep"
                 /\ trace[i - 1] = <<"sleep", trace[i][2] - 1>>

\* no step taken while the retry wrapper runs touches the limiter
AttemptsLeaveLimiterAlone ==
    wpc = "func" /\ wpc' = "func" => UNCHANGED <<timestamp, stamps, lpc>>

\* C15: with rate_limited_request around the retry wrapper around the
\* transport, the limiter is consulted once for each call of the caller,
\* however many attempts the retry wrapper makes: the attempts after the
\* first are separated by the backoff sleep only, they do not go through
\* wait_for_next_request and do not change the limiter's timestamp.
C15_LimiterOncePerCall == []OncePerCall /\ [][AttemptsLeaveLimiterAlone]_vars

\* the last attempt the bound allows is under way, the limiter has stamped
\* once
C15_Witness ==
    /\ wcalls = 1
    /\ wpc = "func"
    /\ attempt_number = MaxPipelineAttempts
    /\ attempt_number >= 3
    /\ tpc = "request"
    /\ nsleeps = attempt_number - 1
    /\ Len(stamps) = 1

=============================================================================
